---- MODULE Spec2Model ----
(***************************************************************************)
(* Model of spanner/src/statement.rs: the Statement parameter container    *)
(* and the ToKind / ToStruct marshalling traits with their implementations.*)
(*                                                                         *)
(* Native values are pairs <<shape, payload>>.  A shape is the static Rust *)
(* type the ToKind impl is selected by:                                    *)
(*    <<"String">>, <<"Str">>, <<"I64">>, <<"F64">>, <<"Bool">>,           *)
(*    <<"NaiveDate">>, <<"NaiveDateTime">>, <<"CommitTimestamp">>,         *)
(*    <<"Bytes">>, <<"Decimal">>,                                          *)
(*    <<"Option", T>>, <<"Vec", T>>, <<"Struct", D>>                       *)
(* where D names a user type implementing ToStruct.                        *)
(***************************************************************************)
EXTENDS Integers, Sequences, FiniteSets, TLC

VARIABLES sql, params, param_types, cloned, text, bound, calls, last,
          arg, kind, ty

vars == <<sql, params, param_types, cloned, text, bound, calls, last,
          arg, kind, ty>>

(* ----------------------------- bounds ---------------------------------- *)

\* longest Vec<T> drawn as an input
MaxVecLen == 2
\* number of add_param calls explored on the containers
MaxCalls == 3

(* ------------------------ Option<T> of Rust ---------------------------- *)

None == <<>>
Some(x) == <<x>>

(* ------------------------- text conversions ---------------------------- *)

Digit(d) == <<"0", "1", "2", "3", "4", "5", "6", "7", "8", "9">>[d + 1]

RECURSIVE NatToString(_)
NatToString(n) ==
    IF n < 10 THEN Digit(n) ELSE NatToString(n \div 10) \o Digit(n % 10)

\* i64::to_string
I64ToString(n) == IF n < 0 THEN "-" \o NatToString(0 - n) ELSE NatToString(n)

RECURSIVE Pad(_, _)
\* the w low decimal digits of n, zero padded (%Y, %m, %d, RFC 3339 fields)
Pad(n, w) == IF w = 0 THEN "" ELSE Pad(n \div 10, w - 1) \o Digit(n % 10)

\* NaiveDate::format("%Y-%m-%d"); a date is <<year, month, day>>
FormatDate(d) == Pad(d[1], 4) \o "-" \o Pad(d[2], 2) \o "-" \o Pad(d[3], 2)

\* Utc.from_utc_datetime(..).to_rfc3339_opts(SecondsFormat::Nanos, true);
\* a date-time is <<date, hour, minute, second, nanosecond>>
FormatRfc3339Nanos(t) ==
    FormatDate(t[1]) \o "T" \o Pad(t[2], 2) \o ":" \o Pad(t[3], 2) \o ":"
        \o Pad(t[4], 2) \o "." \o Pad(t[5], 9) \o "Z"

Base64Alphabet ==
    <<"A", "B", "C", "D", "E", "F", "G", "H", "I", "J", "K", "L", "M",
      "N", "O", "P", "Q", "R", "S", "T", "U", "V", "W", "X", "Y", "Z",
      "a", "b", "c", "d", "e", "f", "g", "h", "i", "j", "k", "l", "m",
      "n", "o", "p", "q", "r", "s", "t", "u", "v", "w", "x", "y", "z",
      "0", "1", "2", "3", "4", "5", "6", "7", "8", "9", "+", "/">>

B64(i) == Base64Alphabet[i + 1]

RECURSIVE Base64Encode(_)
\* base64::encode over a sequence of bytes (standard alphabet, padded)
Base64Encode(bs) ==
    IF Len(bs) = 0 THEN ""
    ELSE IF Len(bs) = 1 THEN
        B64(bs[1] \div 4) \o B64((bs[1] % 4) * 16) \o "=="
    ELSE IF Len(bs) = 2 THEN
        B64(bs[1] \div 4) \o B64((bs[1] % 4) * 16 + bs[2] \div 16)
            \o B64((bs[2] % 16) * 4) \o "="
    ELSE
        B64(bs[1] \div 4) \o B64((bs[1] % 4) * 16 + bs[2] \div 16)
            \o B64((bs[2] % 16) * 4 + bs[3] \div 64) \o B64(bs[3] % 64)
            \o Base64Encode(SubSeq(bs, 4, Len(bs)))

RECURSIVE Pow10(_)
Pow10(k) == IF k = 0 THEN 1 ELSE 10 * Pow10(k - 1)

\* rust_decimal::Decimal::to_string; a decimal is <<mantissa, scale>>
DecimalToString(d) ==
    LET m   == IF d[1] < 0 THEN 0 - d[1] ELSE d[1]
        sgn == IF d[1] < 0 THEN "-" ELSE ""
    IN  IF d[2] = 0 THEN sgn \o NatToString(m)
        ELSE sgn \o NatToString(m \div Pow10(d[2])) \o "."
                 \o Pad(m % Pow10(d[2]), d[2])

(* ------------------------ wire values and types ------------------------ *)

\* prost_types::Value { kind: Some(k) }
Value(k) == [kind |-> Some(k)]

StringValue(s) == <<"StringValue", s>>
NumberValue(f) == <<"NumberValue", f>>
BoolValue(b)   == <<"BoolValue", b>>
NullValue      == <<"NullValue", 0>>
ListValue(vs)  == <<"ListValue", [values |-> vs]>>
StructValue(fs) == <<"StructValue", [fields |-> fs]>>

single_type(code) ==
    [code |-> code, array_element_type |-> None, struct_type |-> None]

Field(n, t) == [name |-> n, type |-> Some(t)]

(* ------------------- std::collections::BTreeMap ------------------------ *)

\* Ord for the String keys that occur, in byte-wise lexicographic order
KeyOrder == <<"a", "n", "p", "q", "tags", "x", "y">>

Rank(k) == CHOOSE i \in 1..Len(KeyOrder) : KeyOrder[i] = k

StrLess(a, b) == Rank(a) < Rank(b)

\* a BTreeMap is the sequence of its <<key, value>> entries in key order,
\* which is the order its iterator yields them in
BTreeEmpty == <<>>

BTreeKeys(m) == [i \in 1..Len(m) |-> m[i][1]]

BTreeKeySet(m) == {m[i][1] : i \in 1..Len(m)}

BTreeGet(m, k) == m[CHOOSE i \in 1..Len(m) : m[i][1] = k][2]

\* entry(k).or_insert(v): an existing entry keeps its old value
BTreeInsert_keep(m, k, v) ==
    IF k \in BTreeKeySet(m) THEN m
    ELSE SelectSeq(m, LAMBDA e : StrLess(e[1], k)) \o << <<k, v>> >>
             \o SelectSeq(m, LAMBDA e : StrLess(k, e[1]))

\* a multimap: an existing entry for k is kept beside the new one
BTreeInsert_multi(m, k, v) ==
    SelectSeq(m, LAMBDA e : StrLess(e[1], k) \/ e[1] = k) \o << <<k, v>> >>
        \o SelectSeq(m, LAMBDA e : StrLess(k, e[1]))

\* the entries after k are lost
BTreeInsert_truncate(m, k, v) ==
    SelectSeq(m, LAMBDA e : StrLess(e[1], k)) \o << <<k, v>> >>

BTreeInsert(m, k, v) ==
    SelectSeq(m, LAMBDA e : StrLess(e[1], k)) \o << <<k, v>> >>
        \o SelectSeq(m, LAMBDA e : StrLess(k, e[1]))

(* -------------------- std::collections::HashMap ------------------------ *)

HashEmpty == [k \in {} |-> None]

\* the map is replaced by the single new entry
HashInsert_clobber(m, k, v) == [x \in {k} |-> v]

HashInsert(m, k, v) ==
    [x \in (DOMAIN m) \cup {k} |-> IF x = k THEN v ELSE m[x]]

(* --------------------- native shapes and values ------------------------ *)

String          == <<"String">>
Str             == <<"Str">>
I64             == <<"I64">>
F64             == <<"F64">>
Bool            == <<"Bool">>
NaiveDate       == <<"NaiveDate">>
NaiveDateTime   == <<"NaiveDateTime">>
CommitTimestamp == <<"CommitTimestamp">>
Bytes           == <<"Bytes">>
Decimal         == <<"Decimal">>
Option(T)       == <<"Option", T>>
Vec(T)          == <<"Vec", T>>
Struct(D)       == <<"Struct", D>>

\* The user types implementing ToStruct: each enumerates its fields as
\* <<name, shape>> pairs in declaration order; to_kinds and get_types both
\* walk this list, so the two enumerations agree in name and order.
Fields(D) ==
    CASE D = "XY"     -> << <<"x", I64>>, <<"y", String>> >>
      [] D = "YX"     -> << <<"y", String>>, <<"x", I64>> >>
      [] D = "Dup"    -> << <<"a", I64>>, <<"a", Bool>> >>
      [] D = "Twice"  -> << <<"x", I64>>, <<"a", Str>>, <<"x", I64>> >>
      [] D = "Nested" -> << <<"y", Struct("YX")>>, <<"tags", Vec(Str)>>,
                            <<"n", Option(I64)>> >>

StructNames == {"XY", "YX", "Dup", "Twice", "Nested"}

ScalarShapes == {String, Str, I64, F64, Bool, NaiveDate, NaiveDateTime,
                 CommitTimestamp, Bytes, Decimal}

Shapes ==
    ScalarShapes
        \cup {Struct(D) : D \in StructNames}
        \cup {Option(T) : T \in ScalarShapes}
        \cup {Vec(T) : T \in ScalarShapes}
        \cup {Option(Struct("XY")), Option(Vec(I64)), Option(Option(Bool)),
              Vec(Struct("YX")), Vec(Option(String)), Vec(Vec(I64))}

RECURSIVE SeqsUpTo(_, _)
\* the sequences over S of length at most n
SeqsUpTo(S, n) ==
    IF n = 0 THEN {<<>>}
    ELSE LET shorter == SeqsUpTo(S, n - 1)
         IN  shorter \cup {Append(q, x) : q \in shorter, x \in S}

RECURSIVE ValuesOf(_)
RECURSIVE FieldValues(_, _)

\* the payload tuples of the first n fields of struct type D
FieldValues(D, n) ==
    IF n = 0 THEN {<<>>}
    ELSE {Append(q, x) : q \in FieldValues(D, n - 1),
                         x \in ValuesOf(Fields(D)[n][2])}

\* the native values (payloads) drawn for each shape; an f64 is drawn from
\* the integral floats, a byte from 0..255
ValuesOf(T) ==
    CASE T = String          -> {"a", "z"}
      [] T = Str             -> {"b"}
      [] T = I64             -> {-7, 42}
      [] T = F64             -> {0, 3}
      [] T = Bool            -> {TRUE, FALSE}
      [] T = NaiveDate       -> {<<2021, 3, 7>>, <<987, 12, 31>>}
      [] T = NaiveDateTime   -> {<<<<2021, 3, 7>>, 1, 2, 3, 4>>,
                                 <<<<1999, 12, 31>>, 23, 59, 59, 999999999>>}
      [] T = CommitTimestamp -> {<<>>}
      [] T = Bytes           -> {<<>>, <<77>>, <<77, 97>>, <<77, 97, 110>>,
                                 <<255, 254, 253, 0>>}
      [] T = Decimal         -> {<<150, 2>>, <<-5, 3>>, <<12, 0>>}
      [] T[1] = "Option"     -> {None} \cup {Some(x) : x \in ValuesOf(T[2])}
      [] T[1] = "Vec"        -> SeqsUpTo(ValuesOf(T[2]), MaxVecLen)
      [] T[1] = "Struct"     -> FieldValues(T[2], Len(Fields(T[2])))

Natives == UNION {{<<T, x>> : x \in ValuesOf(T)} : T \in Shapes}

(* ------------------------- trait ToKind -------------------------------- *)

RECURSIVE to_kind(_, _)
RECURSIVE get_type(_)

\* ToStruct::to_kinds of a user type: the <<name, Kind>> pairs of its fields
to_kinds(D, self) ==
    [i \in 1..Len(Fields(D)) |->
        <<Fields(D)[i][1], to_kind(Fields(D)[i][2], self[i])>>]

\* ToStruct::get_types of a user type: the <<name, Type>> pairs of its fields
get_types(D) ==
    [i \in 1..Len(Fields(D)) |->
        <<Fields(D)[i][1], get_type(Fields(D)[i][2])>>]

RECURSIVE InsertAll(_, _)
\* for_each(|e| fields.insert(e.0.into(), Value { kind: Some(e.1) }))
InsertAll(fields, es) ==
    IF es = <<>> THEN fields
    ELSE InsertAll(BTreeInsert(fields, es[1][1], Value(es[1][2])), Tail(es))

\* impl ToKind for T where T: ToStruct
struct_to_kind(D, self) ==
    StructValue(InsertAll(BTreeEmpty, to_kinds(D, self)))

struct_get_type(D) ==
    [code |-> "STRUCT",
     array_element_type |-> None,
     struct_type |-> Some([fields |->
         [i \in 1..Len(get_types(D)) |->
             Field(get_types(D)[i][1], get_types(D)[i][2])]])]

\* Some(vv) marshalled as a one-element list
option_to_kind_wrapped(T, self) ==
    IF self = None THEN NullValue
    ELSE ListValue(<<Value(to_kind(T, self[1]))>>)

\* impl ToKind for Option<T>
option_to_kind(T, self) ==
    IF self = None THEN NullValue ELSE to_kind(T, self[1])

option_get_type(T) == get_type(T)

\* the items marshalled last to first
vec_to_kind_reversed(T, self) ==
    ListValue([i \in 1..Len(self) |->
                  Value(to_kind(T, self[Len(self) + 1 - i]))])

\* impl ToKind for Vec<T>
vec_to_kind(T, self) ==
    ListValue([i \in 1..Len(self) |-> Value(to_kind(T, self[i]))])

vec_get_type(T) ==
    [code |-> "ARRAY",
     array_element_type |-> Some(get_type(T)),
     struct_type |-> None]

to_kind(T, self) ==
    CASE T = String          -> StringValue(self)
      [] T = Str             -> StringValue(self)
      [] T = I64             -> StringValue(I64ToString(self))
      [] T = F64             -> NumberValue(self)
      [] T = Bool            -> BoolValue(self)
      [] T = NaiveDate       -> StringValue(FormatDate(self))
      [] T = NaiveDateTime   -> StringValue(FormatRfc3339Nanos(self))
      [] T = CommitTimestamp -> StringValue("spanner.commit_timestamp()")
      [] T = Bytes           -> StringValue(Base64Encode(self))
      [] T = Decimal         -> StringValue(DecimalToString(self))
      [] T[1] = "Struct"     -> struct_to_kind(T[2], self)
      [] T[1] = "Option"     -> option_to_kind(T[2], self)
      [] T[1] = "Vec"        -> vec_to_kind(T[2], self)

get_type(T) ==
    CASE T = String          -> single_type("STRING")
      [] T = Str             -> single_type("STRING")
      [] T = I64             -> single_type("INT64")
      [] T = F64             -> single_type("FLOAT64")
      [] T = Bool            -> single_type("BOOL")
      [] T = NaiveDate       -> single_type("DATE")
      [] T = NaiveDateTime   -> single_type("TIMESTAMP")
      [] T = CommitTimestamp -> single_type("TIMESTAMP")
      [] T = Bytes           -> single_type("BYTES")
      [] T = Decimal         -> single_type("NUMERIC")
      [] T[1] = "Struct"     -> struct_get_type(T[2])
      [] T[1] = "Option"     -> option_get_type(T[2])
      [] T[1] = "Vec"        -> vec_get_type(T[2])

(* --------------------------- Statement --------------------------------- *)

Names == {"p", "q"}

Texts == {"SELECT @p", "SELECT 1"}

\* the parameter names a query text refers to
Placeholders(t) == IF t = "SELECT @p" THEN {"p"} ELSE {}

\* Statement::new
new(t) == [sql |-> t, params |-> BTreeEmpty, param_types |-> HashEmpty]

\* only the type is stored
add_param_type_only(self, name, T, value) ==
    [self EXCEPT !.param_types = HashInsert(@, name, get_type(T))]

\* a name the query text does not use is rejected
add_param_validated(self, name, T, value) ==
    IF name \notin Placeholders(self.sql) THEN self
    ELSE [self EXCEPT
            !.param_types = HashInsert(@, name, get_type(T)),
            !.params = BTreeInsert(@, name, Value(to_kind(T, value)))]

\* Statement::add_param::<T>(&mut self, name, value)
add_param(self, name, T, value) ==
    LET typed == [self EXCEPT
                    !.param_types = HashInsert(@, name, get_type(T))]
    IN  [typed EXCEPT
            !.params = BTreeInsert(@, name, Value(to_kind(T, value)))]

\* the values bound on the containers
BindSamples ==
    {<<I64, 42>>, <<String, "a">>, <<Option(String), None>>,
     <<Vec(Str), <<"b", "b">>>>,
     <<Struct("YX"), <<"z", -7>>>>, <<Struct("Dup"), <<42, TRUE>>>>}

\* the container the model binds on, as one Statement value
Self == [sql |-> sql, params |-> params, param_types |-> param_types]

NoCall == [target |-> "none", name |-> "", native |-> <<>>, prev |-> None]

Idle == <<>>

Init ==
    /\ \E t \in Texts :
        /\ sql = new(t).sql
        /\ params = new(t).params
        /\ param_types = new(t).param_types
        /\ text = t
    /\ cloned = None
    /\ bound = [c \in {"self", "clone"} |-> HashEmpty]
    /\ calls = 0
    /\ last = NoCall
    /\ arg = Idle
    /\ kind = None
    /\ ty = None

\* self.add_param(name, value)
AddParam(name, native) ==
    /\ calls < MaxCalls
    /\ LET s == add_param(Self, name, native[1], native[2])
       IN  /\ sql' = s.sql
           /\ params' = s.params
           /\ param_types' = s.param_types
    /\ bound' = [bound EXCEPT !["self"] = HashInsert(@, name, native)]
    /\ calls' = calls + 1
    /\ last' = [target |-> "self", name |-> name, native |-> native,
                prev |-> IF name \in DOMAIN bound["self"]
                         THEN Some(bound["self"][name]) ELSE None]
    /\ UNCHANGED <<cloned, text, arg, kind, ty>>

\* let mut c = self.clone()   (#[derive(Clone)])
Clone ==
    /\ cloned = None
    /\ cloned' = Some(Self)
    /\ bound' = [bound EXCEPT !["clone"] = bound["self"]]
    /\ UNCHANGED <<sql, params, param_types, text, calls, last, arg, kind, ty>>

\* c.add_param(name, value) on the clone
AddParamClone(name, native) ==
    /\ calls < MaxCalls
    /\ cloned # None
    /\ cloned' = Some(add_param(cloned[1], name, native[1], native[2]))
    /\ bound' = [bound EXCEPT !["clone"] = HashInsert(@, name, native)]
    /\ calls' = calls + 1
    /\ last' = [target |-> "clone", name |-> name, native |-> native,
                prev |-> IF name \in DOMAIN bound["clone"]
                         THEN Some(bound["clone"][name]) ELSE None]
    /\ UNCHANGED <<sql, params, param_types, text, arg, kind, ty>>

Next ==
    \/ \E name \in Names, native \in BindSamples : AddParam(name, native)
    \/ Clone
    \/ \E name \in Names, native \in BindSamples : AddParamClone(name, native)

Spec == Init /\ [][Next]_vars

(* ------------- the marshaller alone, over every native value ----------- *)

InitMarshal ==
    /\ arg \in Natives
    /\ kind = None
    /\ ty = None
    /\ sql = ""
    /\ params = BTreeEmpty
    /\ param_types = HashEmpty
    /\ text = ""
    /\ cloned = None
    /\ bound = [c \in {"self", "clone"} |-> HashEmpty]
    /\ calls = 0
    /\ last = NoCall

\* value.to_kind()
ToKind ==
    /\ arg # Idle
    /\ kind = None
    /\ kind' = Some(to_kind(arg[1], arg[2]))
    /\ UNCHANGED <<sql, params, param_types, cloned, text, bound, calls,
                   last, arg, ty>>

\* T::get_type()
GetType ==
    /\ arg # Idle
    /\ ty = None
    /\ ty' = Some(get_type(arg[1]))
    /\ UNCHANGED <<sql, params, param_types, cloned, text, bound, calls,
                   last, arg, kind>>

NextMarshal == ToKind \/ GetType

SpecMarshal == InitMarshal /\ [][NextMarshal]_vars

(* ------------------------------ properties ----------------------------- *)

Targets == IF cloned = None THEN {"self"} ELSE {"self", "clone"}

Cont(c) == IF c = "self" THEN Self ELSE cloned[1]

Entry(m, k) == IF k \in BTreeKeySet(m) THEN Some(BTreeGet(m, k)) ELSE None

TypeEntry(m, k) == IF k \in DOMAIN m THEN Some(m[k]) ELSE None

EntriesFor(m, k) == {i \in 1..Len(m) : m[i][1] = k}

Lockstep(s) ==
    /\ BTreeKeySet(s.params) = DOMAIN s.param_types
    /\ \A n \in DOMAIN s.param_types : Cardinality(EntriesFor(s.params, n)) = 1

\* C1: after new and any sequence of add_param calls, params and param_types
\* are keyed by the same names, each name with exactly one value entry and
\* exactly one type entry.
C1_Lockstep == \A c \in Targets : Lockstep(Cont(c))

\* three calls on one container, one of them a repeated name
C1_Witness ==
    /\ cloned = None
    /\ calls = 3
    /\ Len(params) = 2
    /\ DOMAIN param_types = {"p", "q"}

\* a step that binds a name already bound to a different native value
Rebinds(c) ==
    /\ calls' = calls + 1
    /\ last'.target = c
    /\ last'.name \in DOMAIN bound[c]
    /\ bound[c][last'.name] # last'.native

ReflectsOnly(s, name, native) ==
    /\ Cardinality(EntriesFor(s.params, name)) = 1
    /\ BTreeGet(s.params, name) = Value(to_kind(native[1], native[2]))
    /\ s.param_types[name] = get_type(native[1])

\* C2: binding a name a second time with a different native value leaves one
\* entry for the name, whose value and type are those of the second binding.
C2_Rebind ==
    [][/\ Rebinds("self") =>
            /\ ReflectsOnly(Self', last'.name, last'.native)
            /\ Len(params') = Len(params)
       /\ Rebinds("clone") =>
            /\ ReflectsOnly(cloned'[1], last'.name, last'.native)
            /\ Len(cloned'[1].params) = Len(cloned[1].params)]_vars

\* "p" bound first to the i64 42 and then to an absent Option<String>
C2_Witness ==
    /\ cloned = None
    /\ calls = 2
    /\ Len(params) = 1
    /\ last.name = "p"
    /\ last.native = <<Option(String), None>>
    /\ last.prev = Some(<<I64, 42>>)
    /\ param_types["p"] = single_type("STRING")
    /\ BTreeGet(params, "p") = Value(NullValue)

(* ---- the marshaller ---- *)

Marshalled == arg # Idle /\ kind # None /\ ty # None

IsShape(tag) == arg # Idle /\ arg[1][1] = tag

TypeFieldNames(t) ==
    [i \in 1..Len(t.struct_type[1].fields) |-> t.struct_type[1].fields[i].name]

PairNames(es) == [i \in 1..Len(es) |-> es[i][1]]

\* C3: for a composite shape whose to_kinds and get_types agree in name and
\* order, the field names of the struct type descriptor, in order, are the
\* field names of the struct value as its fields are iterated.
C3_FieldOrder ==
    (/\ IsShape("Struct")
     /\ Marshalled
     /\ PairNames(to_kinds(arg[1][2], arg[2])) = PairNames(get_types(arg[1][2])))
        => TypeFieldNames(ty[1]) = BTreeKeys(kind[1][2].fields)

\* C4: Option<T> reports T's type descriptor whether the value is present or
\* absent; None marshals to the null value and Some(v) to what v marshals to.
C4_Option ==
    IsShape("Option") =>
        /\ ty # None => ty[1] = get_type(arg[1][2])
        /\ kind # None =>
              IF arg[2] = None THEN kind[1] = NullValue
              ELSE kind[1] = to_kind(arg[1][2], arg[2][1])

\* a present Option<i64> marshalled like the i64 inside it
C4_Witness ==
    /\ arg = <<Option(I64), Some(42)>>
    /\ kind = Some(StringValue("42"))
    /\ ty = Some(single_type("INT64"))

\* C5: Vec<T> marshals to a list of the same length whose i-th element is the
\* marshalled i-th item; its type is array of T's type, also when it is empty.
C5_Vec ==
    IsShape("Vec") =>
        /\ kind # None =>
              /\ kind[1][1] = "ListValue"
              /\ Len(kind[1][2].values) = Len(arg[2])
              /\ \A i \in 1..Len(arg[2]) :
                    kind[1][2].values[i] = Value(to_kind(arg[1][2], arg[2][i]))
        /\ ty # None =>
              ty[1] = [code |-> "ARRAY",
                       array_element_type |-> Some(get_type(arg[1][2])),
                       struct_type |-> None]

\* two different strings marshalled in their input order
C5_Witness ==
    /\ arg = <<Vec(String), <<"z", "a">>>>
    /\ kind = Some(ListValue(<<Value(StringValue("z")), Value(StringValue("a"))>>))
    /\ ty # None
    /\ ty[1].array_element_type = Some(single_type("STRING"))

NameSet(es) == {es[i][1] : i \in 1..Len(es)}

LastIndex(es, n) ==
    CHOOSE i \in 1..Len(es) :
        es[i][1] = n /\ \A j \in (i + 1)..Len(es) : es[j][1] # n

\* C10: when to_kinds repeats a field name the struct value holds one field
\* per distinct name, carrying the last pair enumerated under that name,
\* while the struct type keeps one field per pair of get_types in order and
\* so has more fields than the value.
C10_RepeatedName ==
    (/\ IsShape("Struct")
     /\ Marshalled
     /\ Cardinality(NameSet(to_kinds(arg[1][2], arg[2])))
            < Len(to_kinds(arg[1][2], arg[2])))
        => LET es == to_kinds(arg[1][2], arg[2])
               ts == get_types(arg[1][2])
               fs == kind[1][2].fields
               tf == ty[1].struct_type[1].fields
           IN  /\ kind[1][1] = "StructValue"
               /\ BTreeKeySet(fs) = NameSet(es)
               /\ Len(fs) = Cardinality(NameSet(es))
               /\ \A n \in NameSet(es) :
                     BTreeGet(fs, n) = Value(es[LastIndex(es, n)][2])
               /\ Len(tf) = Len(ts)
               /\ \A i \in 1..Len(ts) : tf[i] = Field(ts[i][1], ts[i][2])
               /\ Len(tf) > Len(fs)

\* a struct enumerating "a" twice: the value keeps the second "a" only
C10_Witness ==
    /\ arg = <<Struct("Dup"), <<42, TRUE>>>>
    /\ kind = Some(StructValue(<< <<"a", Value(BoolValue(TRUE))>> >>))
    /\ ty # None
    /\ TypeFieldNames(ty[1]) = <<"a", "a">>

(* ---- the container ---- *)

OthersKept(before, after, name) ==
    \A m \in Names \ {name} :
        /\ Entry(after.params, m) = Entry(before.params, m)
        /\ TypeEntry(after.param_types, m) = TypeEntry(before.param_types, m)

\* C6: add_param changes only the entries under its name in the container it
\* is called on: sql stays the text given to new, the entries of every other
\* name stay, and every other container, a clone included, stays as it was.
C6_Frame ==
    [][calls' = calls + 1 =>
          /\ sql' = text
          /\ last'.target = "self" =>
                /\ sql' = sql
                /\ OthersKept(Self, Self', last'.name)
                /\ cloned' = cloned
          /\ last'.target = "clone" =>
                /\ cloned'[1].sql = cloned[1].sql
                /\ cloned'[1].sql = text
                /\ OthersKept(cloned[1], cloned'[1], last'.name)
                /\ Self' = Self]_vars

\* "q" bound on the container after it was cloned with only "p" bound
C6_Witness ==
    /\ cloned # None
    /\ last.target = "self"
    /\ last.name = "q"
    /\ BTreeKeySet(cloned[1].params) = {"p"}
    /\ BTreeKeySet(params) = {"p", "q"}

BoundIn(s, n) == n \in BTreeKeySet(s.params) /\ n \in DOMAIN s.param_types

\* C7: add_param is accepted in every container state for every name, used
\* by the query text or not, bound already or not, and leaves the name bound
\* in both mappings.
C7_Accepts ==
    /\ calls < MaxCalls =>
          \A n \in Names, v \in BindSamples :
              /\ ENABLED AddParam(n, v)
              /\ \A c \in Targets : BoundIn(add_param(Cont(c), n, v[1], v[2]), n)
    /\ last.target # "none" => BoundIn(Cont(last.target), last.name)

\* "q", which the text does not mention, bound a second time
C7_Witness ==
    /\ text = "SELECT 1"
    /\ last.target = "self"
    /\ last.name = "q"
    /\ last.prev # None
    /\ BoundIn(Self, "q")

RECURSIVE Consistent(_, _)
\* the value tree v fits the type descriptor tree t
Consistent(v, t) ==
    LET k == v.kind[1]
    IN  \/ k[1] = "NullValue"
        \/ /\ t.code \in {"STRING", "INT64", "DATE", "TIMESTAMP", "BYTES",
                          "NUMERIC"}
           /\ k[1] = "StringValue"
        \/ t.code = "FLOAT64" /\ k[1] = "NumberValue"
        \/ t.code = "BOOL" /\ k[1] = "BoolValue"
        \/ /\ t.code = "ARRAY"
           /\ k[1] = "ListValue"
           /\ \A i \in 1..Len(k[2].values) :
                 Consistent(k[2].values[i], t.array_element_type[1])
        \/ /\ t.code = "STRUCT"
           /\ k[1] = "StructValue"
           /\ LET tf == t.struct_type[1].fields
              IN  /\ BTreeKeySet(k[2].fields) = {tf[i].name : i \in 1..Len(tf)}
                  /\ \A i \in 1..Len(tf) :
                        Consistent(BTreeGet(k[2].fields, tf[i].name),
                                   tf[i].type[1])

\* C8: for every bound name the stored value tree is consistent with the
\* stored type descriptor tree at every nesting level.
C8_Consistent ==
    \A c \in Targets :
        \A n \in DOMAIN Cont(c).param_types :
            Consistent(BTreeGet(Cont(c).params, n), Cont(c).param_types[n])

Grows(before, after) ==
    /\ BTreeKeySet(before.params) \subseteq BTreeKeySet(after.params)
    /\ DOMAIN before.param_types \subseteq DOMAIN after.param_types

\* C9: a bound name stays bound in both mappings, and the bound names are
\* exactly the distinct names passed to add_param so far.
C9_OnlyGrow ==
    /\ [](\A c \in Targets :
            /\ BTreeKeySet(Cont(c).params) = DOMAIN bound[c]
            /\ DOMAIN Cont(c).param_types = DOMAIN bound[c]
            /\ Len(Cont(c).params) = Cardinality(DOMAIN bound[c]))
    /\ [][/\ Grows(Self, Self')
          /\ cloned # None => Grows(cloned[1], cloned'[1])]_vars

\* three calls with one name leave one entry
C9_Witness ==
    /\ cloned = None
    /\ calls = 3
    /\ Len(params) = 1
    /\ DOMAIN bound["self"] = {"q"}

====
